---- MODULE Spec2Model ----
(***************************************************************************)
(* Model of the underwater-navigation telemetry intake service:           *)
(*   database.py  DatabaseConfig (the store handle) and COLLECTIONS       *)
(*   main.py      lifespan, the ingestion handlers, the query handlers,   *)
(*                the stats handler and the health handler                *)
(* A handler runs atomically up to its next await (insert_one, to_list,   *)
(* count_documents); requests in flight interleave at those points.       *)
(***************************************************************************)
EXTENDS Integers, Sequences, FiniteSets, TLC

\* ---------------------------------------------------------------- bounds
MaxReqs == 2        \* requests the service receives in a run
MaxClock == 2       \* readings of datetime.now() range over 1..MaxClock
MaxClients == 4     \* clients connect_to_mongo() creates in a handle run
MaxBatch == 2       \* longest batch body
MaxLimit == 2       \* largest limit query parameter
MaxStored == 3      \* documents already stored when a query run begins

\* ------------------------------------------------------------ python values
None == "None"
NoTs == -1                          \* timestamp: Optional[datetime] = None
NoClient == [id |-> 0, closed |-> FALSE]
NoDatabase == [client |-> 0]

Reqs == 1..MaxReqs
Ids == {"a", "b"}
SuppliedTs == {1}
TsIn == {NoTs} \cup SuppliedTs

\* database.py: COLLECTIONS, in dict (insertion) order
CollectionKeys == <<"dht_sensor", "navigation", "mapping", "general_sensor", "batch_data">>

COLLECTIONS ==
  [k \in {CollectionKeys[i] : i \in 1..Len(CollectionKeys)} |->
     CASE k = "dht_sensor" -> "dht_sensor_data"
       [] k = "navigation" -> "navigation_data"
       [] k = "mapping" -> "mapping_data"
       [] k = "general_sensor" -> "general_sensor_data"
       [] k = "batch_data" -> "batch_data"]

KeySet == DOMAIN COLLECTIONS
CollectionNames == {COLLECTIONS[k] : k \in KeySet}

VARIABLES
  client,        \* db_config.client
  database,      \* db_config.database
  is_connected,  \* db_config.is_connected
  nclients,      \* AsyncIOMotorClient objects created so far
  ret,           \* the last call on the store handle and what it returned
  phase,         \* lifespan: "startup", "serving", "stopped"
  store,         \* the documents of each collection, in insertion order
  nextOid,       \* the next identifier the store assigns
  clock,         \* datetime.now()
  reqs           \* the request slots

handle == <<client, database, is_connected, nclients>>
vars == <<client, database, is_connected, nclients, ret, phase, store, nextOid, clock, reqs>>

\* ============================================================ store handle
\* what the try block of connect_to_mongo can run into
ConnectOutcomes == {"ok", "client_error", "ConnectionFailure", "OperationFailure"}

NoCollection == [database |-> NoDatabase, name |-> None]

\* get_collection without the is_connected test
get_collection_nocheck(collection_name) ==
  IF database # NoDatabase
    THEN [database |-> database, name |-> collection_name]
    ELSE NoCollection

\* DatabaseConfig.get_collection: database[collection_name] or None
get_collection(collection_name) ==
  IF database # NoDatabase /\ is_connected
    THEN [database |-> database, name |-> collection_name]
    ELSE NoCollection

\* a connect_to_mongo with no "except Exception": only ConnectionFailure is caught
connect_to_mongo_uncaught(outcome) ==
  /\ nclients' = IF outcome = "client_error" THEN nclients ELSE nclients + 1
  /\ client' = IF outcome = "client_error" THEN client
               ELSE [id |-> nclients + 1, closed |-> FALSE]
  /\ database' = IF outcome = "ok" THEN [client |-> nclients + 1] ELSE database
  /\ is_connected' = IF outcome \in {"ok", "ConnectionFailure"} THEN outcome = "ok"
                     ELSE is_connected
  /\ ret' = [call |-> "connect_to_mongo", arg |-> outcome,
             raised |-> (outcome \notin {"ok", "ConnectionFailure"}),
             value |-> (outcome = "ok")]

\* DatabaseConfig.connect_to_mongo, whole body; outcome is what the client
\* constructor ("client_error") and the ping (the two failures) run into
connect_to_mongo(outcome) ==
  /\ nclients' = IF outcome = "client_error" THEN nclients ELSE nclients + 1
  /\ client' = IF outcome = "client_error" THEN client
               ELSE [id |-> nclients + 1, closed |-> FALSE]
  /\ database' = IF outcome = "ok" THEN [client |-> nclients + 1] ELSE database
  /\ is_connected' = (outcome = "ok")
  /\ ret' = [call |-> "connect_to_mongo", arg |-> outcome, raised |-> FALSE,
             value |-> (outcome = "ok")]

\* DatabaseConfig.close_mongo_connection
close_mongo_connection ==
  /\ client' = IF client # NoClient THEN [client EXCEPT !.closed = TRUE] ELSE client
  /\ ret' = [call |-> "close_mongo_connection", arg |-> None, raised |-> FALSE,
             value |-> None]
  /\ UNCHANGED <<database, is_connected, nclients>>

\* ================================================================ payloads
Position == [x |-> 1, y |-> 2, z |-> 3]
Orientation == [roll |-> 0, pitch |-> 0, yaw |-> 1]
Points == {[range |-> 1], [range |-> 2]}

RECURSIVE SeqsUpTo(_, _)
SeqsUpTo(S, n) ==
  IF n = 0 THEN {<<>>}
  ELSE LET shorter == SeqsUpTo(S, n - 1)
       IN shorter \cup {Append(q, x) : q \in {t \in shorter : Len(t) = n - 1}, x \in S}

\* main.py: the pydantic models
DHTSensorData ==
  [sensor_id : Ids, temperature : {18}, humidity : {85}, timestamp : TsIn, location : {None}]
NavigationData ==
  [device_id : Ids, position : {Position}, orientation : {Orientation},
   velocity : {None}, timestamp : TsIn]
MappingData ==
  [sensor_id : Ids, scan_data : {<<[range |-> 1]>>}, timestamp : TsIn,
   position : {None}]
GeneralSensorData ==
  [sensor_type : {"sonar"}, sensor_id : Ids, data : {[depth |-> 12]}, timestamp : TsIn,
   metadata : {None}]
BatchBodies == SeqsUpTo(Points, MaxBatch)

\* errors an awaited store call can raise, by the text str(e) gives
StoreErrors == {"ServerSelectionTimeoutError", "WriteError"}

\* str() of an ObjectId: its digits in base 16, most significant first
HexDigits == <<"0", "1", "2", "3", "4", "5", "6", "7", "8", "9", "a", "b", "c", "d", "e", "f">>

RECURSIVE Hex(_)
Hex(n) == IF n < 16 THEN <<HexDigits[n + 1]>> ELSE Append(Hex(n \div 16), HexDigits[(n % 16) + 1])

ObjectId(n) == [oid |-> n]
Str(o) == Hex(o.oid)

\* dict1 | dict2 for records
Merge(f, g) == [k \in (DOMAIN f) \cup (DOMAIN g) |-> IF k \in DOMAIN g THEN g[k] ELSE f[k]]

\* ============================================================ request slots
Idle == [pc |-> "idle", op |-> "none", input |-> <<>>, locals |-> <<>>, attempts |-> 0,
         resp |-> <<>>]

IngestOps == KeySet
TypedOps == IngestOps \ {"batch_data"}
QueryOps == {"get_dht_sensor", "get_navigation", "get_mapping"}

\* the requests of a run take the slots in the order they arrive
CanStart(r) ==
  /\ phase = "serving"
  /\ reqs[r].pc = "idle"
  /\ \A q \in Reqs : q < r => reqs[q].pc # "idle"

\* "if not model.timestamp: model.timestamp = datetime.now()"
Normalize(model) ==
  IF model.timestamp = NoTs THEN [model EXCEPT !.timestamp = clock] ELSE model

\* a data_received that reads the time again for its timestamp
DataReceivedRederive(op, model) ==
  IF op = "mapping"
    THEN [sensor_id |-> model.sensor_id, scan_points_count |-> Len(model.scan_data),
          timestamp |-> clock]
    ELSE [model EXCEPT !.timestamp = clock]

\* data_received of the typed handlers; mapping echoes a summary
DataReceived(op, model) ==
  IF op = "mapping"
    THEN [sensor_id |-> model.sensor_id, scan_points_count |-> Len(model.scan_data),
          timestamp |-> model.timestamp]
    ELSE model

Noun(op) ==
  CASE op = "dht_sensor" -> "DHT sensor data"
    [] op = "navigation" -> "Navigation data"
    [] op = "mapping" -> "Mapping data"
    [] op = "general_sensor" -> "General sensor data"
    [] op = "batch_data" -> "Batch data"

\* the part of a response that depends on the handler: the echo
Echo(op, model) ==
  IF op = "batch_data" THEN [data_points_count |-> Len(model)]
  ELSE [data_received |-> DataReceived(op, model)]

\* the tail of a batch message: f" ({len(batch_data)} points)"
PointsNote(op, model) == IF op = "batch_data" THEN <<" (", Len(model), " points)">> ELSE <<>>

\* the three returns of an ingestion handler
SuccessResponse(op, model, inserted_id) ==
  Merge([http |-> 200, status |-> "success",
         message |-> <<Noun(op), " received and saved to database">> \o PointsNote(op, model),
         database_id |-> Str(inserted_id)], Echo(op, model))

PartialResponse(op, model) ==
  Merge([http |-> 200, status |-> "partial_success",
         message |-> <<Noun(op), " received but not saved (database unavailable)">>
                       \o PointsNote(op, model)],
        Echo(op, model))

ErrorResponse(op, model, e) ==
  Merge([http |-> 200, status |-> "error",
         message |-> <<Noun(op), " received but database error: ", e>>
                       \o PointsNote(op, model)], Echo(op, model))

\* an ingestion handler without the "collection is not None" test: the
\* insert_one on None raises and the except branch answers
IngestStartNoTest(r, op, body, model, document) ==
  LET collection == get_collection(COLLECTIONS[op])
  IN /\ CanStart(r)
     /\ reqs' = [reqs EXCEPT ![r] =
          IF collection # NoCollection
            THEN [pc |-> "insert_one", op |-> op, body |-> body, input |-> model,
                  locals |-> [collection |-> collection, document |-> document],
                  attempts |-> 1, resp |-> <<>>]
            ELSE [pc |-> "done", op |-> op, body |-> body, input |-> model,
                  locals |-> [collection |-> collection, e |-> "AttributeError"],
                  attempts |-> 0, resp |-> ErrorResponse(op, model, "AttributeError")]]
     /\ UNCHANGED <<handle, ret, phase, store, nextOid, clock>>

\* the handler up to "await collection.insert_one(document)", or to its
\* return when get_collection gave None; body is the request body as it
\* came in, model the handler's parameter after the timestamp was set
IngestStart(r, op, body, model, document) ==
  LET collection == get_collection(COLLECTIONS[op])
  IN /\ CanStart(r)
     /\ reqs' = [reqs EXCEPT ![r] =
          IF collection # NoCollection
            THEN [pc |-> "insert_one", op |-> op, body |-> body, input |-> model,
                  locals |-> [collection |-> collection, document |-> document],
                  attempts |-> 1, resp |-> <<>>]
            ELSE [pc |-> "done", op |-> op, body |-> body, input |-> model,
                  locals |-> [collection |-> collection], attempts |-> 0,
                  resp |-> PartialResponse(op, model)]]
     /\ UNCHANGED <<handle, ret, phase, store, nextOid, clock>>

receive_dht_data(r) ==
  \E dht_data \in DHTSensorData :
    LET m == Normalize(dht_data) IN IngestStart(r, "dht_sensor", dht_data, m, m)

receive_navigation_data(r) ==
  \E nav_data \in NavigationData :
    LET m == Normalize(nav_data) IN IngestStart(r, "navigation", nav_data, m, m)

receive_mapping_data(r) ==
  \E mapping_data \in MappingData :
    LET m == Normalize(mapping_data) IN IngestStart(r, "mapping", mapping_data, m, m)

receive_general_sensor_data(r) ==
  \E sensor_data \in GeneralSensorData :
    LET m == Normalize(sensor_data) IN IngestStart(r, "general_sensor", sensor_data, m, m)

receive_batch_data(r) ==
  \E batch_data \in BatchBodies :
    IngestStart(r, "batch_data", batch_data, batch_data,
                [batch_timestamp |-> clock, batch_size |-> Len(batch_data),
                 data_points |-> batch_data])

\* an insert that stores the points of a batch envelope one by one
InsertEach(coll, document, oid) ==
  IF "data_points" \in DOMAIN document
    THEN [store EXCEPT ![coll] =
            @ \o [i \in 1..Len(document.data_points) |->
                    Merge(document.data_points[i], [_id |-> ObjectId(oid + i - 1)])]]
    ELSE [store EXCEPT ![coll] = Append(@, Merge(document, [_id |-> ObjectId(oid)]))]

\* insert_one that stores the document a second time
InsertTwice(coll, document, oid) ==
  [store EXCEPT ![coll] = Append(Append(@, Merge(document, [_id |-> ObjectId(oid)])),
                                 Merge(document, [_id |-> ObjectId(oid)]))]

\* the store's insert_one: the document, with its new _id, joins the collection
InsertOne(coll, document, oid) ==
  [store EXCEPT ![coll] = Append(@, Merge(document, [_id |-> ObjectId(oid)]))]

\* "result = await collection.insert_one(document)" returns
InsertSucceeds(r) ==
  LET q == reqs[r]
  IN /\ q.pc = "insert_one"
     /\ store' = InsertOne(q.locals.collection.name, q.locals.document, nextOid)
     /\ nextOid' = nextOid + 1
     /\ reqs' = [reqs EXCEPT ![r] =
          [q EXCEPT !.pc = "done",
                    !.locals = Merge(@, [inserted_id |-> ObjectId(nextOid)]),
                    !.resp = SuccessResponse(q.op, q.input, ObjectId(nextOid))]]
     /\ UNCHANGED <<handle, ret, phase, clock>>

\* an ingestion handler that tries the insert again after an error
InsertRetries(r) ==
  \E e \in StoreErrors :
    /\ reqs[r].pc = "insert_one"
    /\ reqs[r].attempts < 2
    /\ reqs' = [reqs EXCEPT ![r].attempts = @ + 1]
    /\ UNCHANGED <<handle, ret, phase, store, nextOid, clock>>

\* an ingestion handler that marks the store handle disconnected when its
\* insert raises
InsertRaisesDisconnects(r) ==
  \E e \in StoreErrors :
    /\ reqs[r].pc = "insert_one"
    /\ reqs' = [reqs EXCEPT ![r] =
         [@ EXCEPT !.pc = "done", !.locals = Merge(@, [e |-> e]),
                   !.resp = ErrorResponse(reqs[r].op, reqs[r].input, e)]]
    /\ is_connected' = FALSE
    /\ UNCHANGED <<client, database, nclients, ret, phase, store, nextOid, clock>>

\* "await collection.insert_one(document)" raises: except Exception as e
InsertRaises(r) ==
  \E e \in StoreErrors :
    /\ reqs[r].pc = "insert_one"
    /\ reqs' = [reqs EXCEPT ![r] =
         [@ EXCEPT !.pc = "done", !.locals = Merge(@, [e |-> e]),
                   !.resp = ErrorResponse(reqs[r].op, reqs[r].input, e)]]
    /\ UNCHANGED <<handle, ret, phase, store, nextOid, clock>>

\* ================================================================= queries
\* exceptions a handler raises to the framework become the HTTP response
HTTPException(status_code, detail) == [http |-> status_code, detail |-> detail]

\* str() of the HTTPException the handler itself raised
StrHTTP(status_code, detail) == <<status_code, ": ", detail>>

\* every order of the elements of s
Orderings(s) ==
  LET n == Len(s)
      perms == {p \in [1..n -> 1..n] : \A i, j \in 1..n : i # j => p[i] # p[j]}
  IN {[i \in 1..n |-> s[p[i]]] : p \in perms}

IsSortedDesc(s) == \A i \in 1..(Len(s) - 1) : s[i].timestamp >= s[i + 1].timestamp

Min(a, b) == IF a < b THEN a ELSE b

\* a find that leaves out the sort: the first documents in insertion order
FindLimitUnsorted(coll, query, limit) ==
  LET matching == SelectSeq(store[coll], LAMBDA d : \A k \in DOMAIN query : d[k] = query[k])
  IN {SubSeq(matching, 1, Min(limit, Len(matching)))}

\* collection.find(query).sort("timestamp", -1).limit(limit), then
\* to_list(length=limit): the possible results (ties come in any order)
FindSortLimit(coll, query, limit) ==
  LET matching == SelectSeq(store[coll], LAMBDA d : \A k \in DOMAIN query : d[k] = query[k])
  IN {SubSeq(s, 1, Min(limit, Len(s))) : s \in {t \in Orderings(matching) : IsSortedDesc(t)}}

\* a conversion by repr() in place of str()
ConvertIdsRepr(documents) ==
  [i \in 1..Len(documents) |-> [documents[i] EXCEPT !._id = <<"ObjectId(">> \o Str(@) \o <<")">>]]

\* "for doc in documents: doc['_id'] = str(doc['_id'])"
ConvertIds(documents) ==
  [i \in 1..Len(documents) |-> [documents[i] EXCEPT !._id = Str(@)]]

IdField(op) == IF op = "get_navigation" THEN "device_id" ELSE "sensor_id"

QueryKey(op) ==
  CASE op = "get_dht_sensor" -> "dht_sensor"
    [] op = "get_navigation" -> "navigation"
    [] op = "get_mapping" -> "mapping"

\* a query handler up to "await cursor.to_list(length=limit)"; the 503 it
\* raises inside its try is caught by its own "except Exception". The limit
\* parameter is drawn from the positive values, the filter from None, the
\* empty string ("if sensor_id:" is false for both) and the identifiers
QueryStart(r, op) ==
  \E limit \in 1..MaxLimit, id \in Ids \cup {None, ""} :
    LET collection == get_collection(COLLECTIONS[QueryKey(op)])
        query == IF id # None /\ id # "" THEN [k \in {IdField(op)} |-> id] ELSE <<>>
    IN /\ CanStart(r)
       /\ reqs' = [reqs EXCEPT ![r] =
            IF collection = NoCollection
              THEN [pc |-> "done", op |-> op, input |-> [limit |-> limit, id |-> id],
                    locals |-> [collection |-> collection,
                                e |-> StrHTTP(503, "Database not available")],
                    attempts |-> 0,
                    resp |-> HTTPException(500,
                               <<"Database error: ", StrHTTP(503, "Database not available")>>)]
              ELSE [pc |-> "to_list", op |-> op, input |-> [limit |-> limit, id |-> id],
                    locals |-> [collection |-> collection, query |-> query],
                    attempts |-> 0, resp |-> <<>>]]
       /\ UNCHANGED <<handle, ret, phase, store, nextOid, clock>>

get_dht_sensor_data(r) == QueryStart(r, "get_dht_sensor")
get_navigation_data(r) == QueryStart(r, "get_navigation")
get_mapping_data(r) == QueryStart(r, "get_mapping")

\* to_list returns: convert the identifiers and answer
QueryReturns(r) ==
  LET q == reqs[r]
  IN /\ q.pc = "to_list"
     /\ \E documents \in FindSortLimit(q.locals.collection.name, q.locals.query, q.input.limit) :
          reqs' = [reqs EXCEPT ![r] =
            [q EXCEPT !.pc = "done",
                      !.resp = [http |-> 200, status |-> "success", count |-> Len(documents),
                                data |-> ConvertIds(documents)]]]
     /\ UNCHANGED <<handle, ret, phase, store, nextOid, clock>>

\* to_list raises: except Exception as e -> HTTPException(500)
QueryRaises(r) ==
  \E e \in StoreErrors :
    /\ reqs[r].pc = "to_list"
    /\ reqs' = [reqs EXCEPT ![r] =
         [@ EXCEPT !.pc = "done", !.locals = Merge(@, [e |-> e]),
                   !.resp = HTTPException(500, <<"Database error: ", e>>)]]
    /\ UNCHANGED <<handle, ret, phase, store, nextOid, clock>>

\* ------------------------------------------------------------------- stats
Unavailable == [marker |-> "unavailable"]
Count(n) == [count |-> n]

\* a stats loop that answers 503 as soon as a collection is absent
RECURSIVE StatsLoop503(_, _)
StatsLoop503(i, stats) ==
  IF i > Len(CollectionKeys)
    THEN [pc |-> "done", op |-> "stats", input |-> <<>>, locals |-> [stats |-> stats],
          attempts |-> 0,
          resp |-> [http |-> 200, status |-> "success", database |-> "underwater_navigation",
                    collections |-> stats]]
  ELSE LET collection == get_collection(COLLECTIONS[CollectionKeys[i]])
       IN IF collection # NoCollection
            THEN [pc |-> "count_documents", op |-> "stats", input |-> <<>>,
                  locals |-> [stats |-> stats, i |-> i, collection |-> collection],
                  attempts |-> 0, resp |-> <<>>]
            ELSE [pc |-> "done", op |-> "stats", input |-> <<>>, locals |-> [stats |-> stats],
                  attempts |-> 0, resp |-> [http |-> 503, detail |-> "Database not available"]]

\* the loop of get_database_stats from position i with the entries so far,
\* run until it has to await a count or has visited every collection:
\* the request slot it leaves behind
RECURSIVE StatsLoop(_, _)
StatsLoop(i, stats) ==
  IF i > Len(CollectionKeys)
    THEN [pc |-> "done", op |-> "stats", input |-> <<>>, locals |-> [stats |-> stats],
          attempts |-> 0,
          resp |-> [http |-> 200, status |-> "success", database |-> "underwater_navigation",
                    collections |-> stats]]
  ELSE LET collection == get_collection(COLLECTIONS[CollectionKeys[i]])
       IN IF collection # NoCollection
            THEN [pc |-> "count_documents", op |-> "stats", input |-> <<>>,
                  locals |-> [stats |-> stats, i |-> i, collection |-> collection],
                  attempts |-> 0, resp |-> <<>>]
            ELSE StatsLoop(i + 1, Merge(stats, [k \in {CollectionKeys[i]} |-> Unavailable]))

get_database_stats(r) ==
  /\ CanStart(r)
  /\ reqs' = [reqs EXCEPT ![r] = StatsLoop(1, <<>>)]
  /\ UNCHANGED <<handle, ret, phase, store, nextOid, clock>>

\* "count = await collection.count_documents({})" returns; the loop goes on
CountReturns(r) ==
  LET q == reqs[r]
      key == CollectionKeys[q.locals.i]
      count == Len(store[q.locals.collection.name])
  IN /\ q.pc = "count_documents"
     /\ reqs' = [reqs EXCEPT ![r] =
          StatsLoop(q.locals.i + 1, Merge(q.locals.stats, [k \in {key} |-> Count(count)]))]
     /\ UNCHANGED <<handle, ret, phase, store, nextOid, clock>>

\* a stats handler that marks the collection whose count raised and goes on
CountRaisesDegrades(r) ==
  \E e \in StoreErrors :
    LET q == reqs[r]
    IN /\ q.pc = "count_documents"
       /\ reqs' = [reqs EXCEPT ![r] =
            StatsLoop(q.locals.i + 1,
                      Merge(q.locals.stats, [k \in {CollectionKeys[q.locals.i]} |-> Unavailable]))]
       /\ UNCHANGED <<handle, ret, phase, store, nextOid, clock>>

\* count_documents raises: the except around the whole loop answers 500
CountRaises(r) ==
  \E e \in StoreErrors :
    /\ reqs[r].pc = "count_documents"
    /\ reqs' = [reqs EXCEPT ![r] =
         [@ EXCEPT !.pc = "done", !.locals = Merge(@, [e |-> e]),
                   !.resp = HTTPException(500, <<"Database error: ", e>>)]]
    /\ UNCHANGED <<handle, ret, phase, store, nextOid, clock>>

\* ------------------------------------------------------------------ health
health_check(r) ==
  /\ CanStart(r)
  /\ reqs' = [reqs EXCEPT ![r] =
       [pc |-> "done", op |-> "health", input |-> <<>>, locals |-> <<>>, attempts |-> 0,
        resp |-> [http |-> 200, status |-> "healthy", timestamp |-> clock]]]
  /\ UNCHANGED <<handle, ret, phase, store, nextOid, clock>>

\* time passes
Tick ==
  /\ clock < MaxClock
  /\ clock' = clock + 1
  /\ UNCHANGED <<handle, ret, phase, store, nextOid, reqs>>

\* ---------------------------------------------------------------- lifespan
\* a lifespan that gives up when the startup connect returns False
lifespan_startup_abort ==
  /\ phase = "startup"
  /\ \E outcome \in ConnectOutcomes :
       /\ connect_to_mongo(outcome)
       /\ phase' = IF outcome = "ok" THEN "serving" ELSE "stopped"
  /\ UNCHANGED <<store, nextOid, clock, reqs>>

\* lifespan before the yield: "await db_config.connect_to_mongo()"
lifespan_startup ==
  /\ phase = "startup"
  /\ \E outcome \in ConnectOutcomes : connect_to_mongo(outcome)
  /\ phase' = "serving"
  /\ UNCHANGED <<store, nextOid, clock, reqs>>

\* lifespan after the yield, once no handler is suspended
lifespan_shutdown ==
  /\ phase = "serving"
  /\ \A r \in Reqs : reqs[r].pc \in {"idle", "done"}
  /\ close_mongo_connection
  /\ phase' = "stopped"
  /\ UNCHANGED <<store, nextOid, clock, reqs>>

\* ----------------------------------------------------------- specification
Init ==
  /\ client = NoClient
  /\ database = NoDatabase
  /\ is_connected = FALSE
  /\ nclients = 0
  /\ ret = [call |-> "none", arg |-> None, raised |-> FALSE, value |-> None]
  /\ phase = "startup"
  /\ store = [c \in CollectionNames |-> <<>>]
  /\ nextOid = 1
  /\ clock = 1
  /\ reqs = [r \in Reqs |-> Idle]

Next ==
  \/ lifespan_startup
  \/ lifespan_shutdown
  \/ Tick
  \/ \E r \in Reqs : receive_dht_data(r)
  \/ \E r \in Reqs : receive_navigation_data(r)
  \/ \E r \in Reqs : receive_mapping_data(r)
  \/ \E r \in Reqs : receive_general_sensor_data(r)
  \/ \E r \in Reqs : receive_batch_data(r)
  \/ \E r \in Reqs : InsertSucceeds(r)
  \/ \E r \in Reqs : InsertRaises(r)
  \/ \E r \in Reqs : get_dht_sensor_data(r)
  \/ \E r \in Reqs : get_navigation_data(r)
  \/ \E r \in Reqs : get_mapping_data(r)
  \/ \E r \in Reqs : QueryReturns(r)
  \/ \E r \in Reqs : QueryRaises(r)
  \/ \E r \in Reqs : get_database_stats(r)
  \/ \E r \in Reqs : CountReturns(r)
  \/ \E r \in Reqs : CountRaises(r)
  \/ \E r \in Reqs : health_check(r)

Spec == Init /\ [][Next]_vars

\* the store handle on its own, driven by any sequence of calls
Connect ==
  /\ nclients < MaxClients
  /\ \E outcome \in ConnectOutcomes : connect_to_mongo(outcome)
  /\ UNCHANGED <<phase, store, nextOid, clock, reqs>>

Close ==
  /\ close_mongo_connection
  /\ UNCHANGED <<phase, store, nextOid, clock, reqs>>

GetCollection ==
  /\ \E key \in KeySet :
       ret' = [call |-> "get_collection", arg |-> COLLECTIONS[key], raised |-> FALSE,
               value |-> get_collection(COLLECTIONS[key])]
  /\ UNCHANGED <<handle, phase, store, nextOid, clock, reqs>>

HandleNext == Connect \/ Close \/ GetCollection

HandleSpec == Init /\ [][HandleNext]_vars

\* the query handlers against a store that earlier ingestions have filled:
\* the service is connected and one of the queried collections holds up to
\* MaxStored documents, numbered by the store in the order they came
StoredModels(key) ==
  LET M == CASE key = "dht_sensor" -> DHTSensorData
             [] key = "navigation" -> NavigationData
             [] key = "mapping" -> MappingData
  IN {[m EXCEPT !.timestamp = t] : m \in M, t \in 1..MaxClock}

Stored(key, models) ==
  [i \in 1..Len(models) |-> Merge(models[i], [_id |-> ObjectId(i)])]

QueryInit ==
  /\ client = [id |-> 1, closed |-> FALSE]
  /\ database = [client |-> 1]
  /\ is_connected = TRUE
  /\ nclients = 1
  /\ ret = [call |-> "connect_to_mongo", arg |-> "ok", raised |-> FALSE, value |-> TRUE]
  /\ phase = "serving"
  /\ \E key \in {"dht_sensor", "navigation", "mapping"} :
       \E models \in SeqsUpTo(StoredModels(key), MaxStored) :
         /\ store = [c \in CollectionNames |->
                       IF c = COLLECTIONS[key] THEN Stored(key, models) ELSE <<>>]
         /\ nextOid = Len(models) + 1
  /\ clock = MaxClock
  /\ reqs = [r \in Reqs |-> Idle]

QueryNext ==
  \/ get_dht_sensor_data(1)
  \/ get_navigation_data(1)
  \/ get_mapping_data(1)
  \/ QueryReturns(1)
  \/ QueryRaises(1)

QuerySpec == QueryInit /\ [][QueryNext]_vars

\* an ingestion of a queryable kind and a query after it, against a store
\* that earlier ingestions have filled
RoundTripNext ==
  \/ receive_dht_data(1)
  \/ receive_navigation_data(1)
  \/ receive_mapping_data(1)
  \/ InsertSucceeds(1)
  \/ InsertRaises(1)
  \/ get_dht_sensor_data(2)
  \/ get_navigation_data(2)
  \/ get_mapping_data(2)
  \/ QueryReturns(2)
  \/ QueryRaises(2)

RoundTripSpec == QueryInit /\ [][RoundTripNext]_vars

\* ================================================================== claims
Done(r) == reqs[r].pc = "done"
Arrives(r) == reqs[r].pc = "idle" /\ reqs'[r].pc # "idle"
Routed(op) == COLLECTIONS[op]

\* C1: an ingestion request that arrives while the store handle is
\* disconnected is answered in that step with HTTP 200, status
\* partial_success and no database_id, attempts no insert and leaves every
\* collection as it was
C1_DisconnectedIngestion ==
  [][\A r \in Reqs :
       (Arrives(r) /\ reqs'[r].op \in IngestOps /\ ~is_connected)
         => /\ reqs'[r].pc = "done"
            /\ reqs'[r].resp.http = 200
            /\ reqs'[r].resp.status = "partial_success"
            /\ "database_id" \notin DOMAIN reqs'[r].resp
            /\ reqs'[r].attempts = 0
            /\ store' = store]_vars

C1_Witness ==
  \E r \in Reqs :
    /\ Done(r) /\ reqs[r].op = "batch_data" /\ ~is_connected
    /\ reqs[r].resp.status = "partial_success"
    /\ \E q \in Reqs : Done(q) /\ reqs[q].op = "dht_sensor" /\ reqs[q].resp.status = "partial_success"

\* the number a string of base-16 digits stands for
RECURSIVE FromHex(_)
FromHex(str) ==
  IF str = <<>> THEN 0
  ELSE 16 * FromHex(SubSeq(str, 1, Len(str) - 1))
         + (CHOOSE d \in 0..15 : HexDigits[d + 1] = str[Len(str)])

\* C2: when an awaited insert succeeds (the store assigns an identifier), the
\* request is answered with status success and a non-empty string database_id
\* that reads back as that identifier; the routed collection gains exactly
\* one document, carrying that identifier, and no other collection changes
C2_InsertSuccess ==
  [][\A r \in Reqs :
       (reqs[r].pc = "insert_one" /\ reqs'[r] # reqs[r] /\ nextOid' # nextOid)
         => LET coll == Routed(reqs[r].op)
                resp == reqs'[r].resp
            IN /\ is_connected
               /\ reqs'[r].pc = "done"
               /\ resp.http = 200 /\ resp.status = "success"
               /\ "database_id" \in DOMAIN resp
               /\ Len(resp.database_id) > 0
               /\ \A i \in 1..Len(resp.database_id) :
                    \E d \in 1..16 : HexDigits[d] = resp.database_id[i]
               /\ FromHex(resp.database_id) = nextOid
               /\ Len(store'[coll]) = Len(store[coll]) + 1
               /\ SubSeq(store'[coll], 1, Len(store[coll])) = store[coll]
               /\ store'[coll][Len(store'[coll])]._id = ObjectId(nextOid)
               /\ \A c \in CollectionNames \ {coll} : store'[c] = store[c]]_vars

C2_Witness ==
  \E r \in Reqs :
    /\ Done(r) /\ reqs[r].op = "dht_sensor" /\ reqs[r].resp.status = "success"
    /\ reqs[r].resp.database_id = <<"2">>
    /\ Len(store["dht_sensor_data"]) = 1

\* C3: when an awaited insert raises, the request is answered in that step
\* with HTTP 200, status error and no database_id; no request ever makes more
\* than one insert attempt
C3_InsertError ==
  /\ [](\A r \in Reqs : reqs[r].attempts <= 1)
  /\ [][\A r \in Reqs :
          (reqs[r].pc = "insert_one" /\ reqs'[r] # reqs[r] /\ nextOid' = nextOid)
            => /\ reqs'[r].pc = "done"
               /\ reqs'[r].resp.http = 200
               /\ reqs'[r].resp.status = "error"
               /\ "database_id" \notin DOMAIN reqs'[r].resp
               /\ reqs'[r].attempts = 1
               /\ store' = store]_vars

C3_Witness ==
  \E r \in Reqs :
    /\ Done(r) /\ reqs[r].op \in {"navigation", "general_sensor"}
    /\ reqs[r].resp.status = "error" /\ reqs[r].attempts = 1 /\ is_connected

\* C4: a query request that found the store not connected is answered with
\* HTTP 503 (stated as claimed; the handlers answer 500)
C4_QueryUnavailable503 ==
  \A r \in Reqs :
    (Done(r) /\ reqs[r].op \in QueryOps /\ reqs[r].locals.collection = NoCollection)
      => reqs[r].resp.http = 503

IsCount(v) == "count" \in DOMAIN v /\ v.count >= 0

C7_CloseDisconnects ==
  ret.call = "close_mongo_connection"
    => /\ ~is_connected
       /\ \A k \in KeySet : get_collection(COLLECTIONS[k]) = NoCollection

\* C8: connect() never raises; when the constructor or the ping fails it
\* returns False and leaves connected false, whatever the flag was before,
\* and when the ping succeeds it returns True and leaves connected true
C8_ConnectNeverRaises ==
  ret.call = "connect_to_mongo"
    => /\ ~ret.raised
       /\ ret.value = (ret.arg = "ok")
       /\ is_connected = (ret.arg = "ok")

C8_Witness ==
  /\ ret.call = "connect_to_mongo" /\ ret.arg = "OperationFailure"
  /\ database # NoDatabase /\ ~is_connected /\ nclients = 2

\* C9: get_collection never raises and gives a collection of the requested
\* name exactly when connected is true, None otherwise; connected true
\* implies that database is set
C9_GetCollection ==
  /\ is_connected => database # NoDatabase
  /\ \A k \in KeySet :
       IF is_connected
         THEN get_collection(COLLECTIONS[k]) = [database |-> database, name |-> COLLECTIONS[k]]
         ELSE get_collection(COLLECTIONS[k]) = NoCollection
  /\ ret.call = "get_collection"
       => /\ ~ret.raised
          /\ (ret.value # NoCollection) = is_connected
          /\ is_connected => ret.value.name = ret.arg

C9_Witness ==
  /\ ret.call = "get_collection" /\ ret.value = NoCollection
  /\ database # NoDatabase /\ ~is_connected

\* C10: whatever the startup connect does, the service goes on to serve; a
\* service that is serving disconnected stays disconnected, and every
\* ingestion request it has received is answered partial_success
C10_Degraded ==
  /\ [][phase = "startup" => phase' \in {"startup", "serving"}]_vars
  /\ [][(phase # "startup" /\ ~is_connected) => ~is_connected']_vars
  /\ [](\A r \in Reqs :
          (phase # "startup" /\ ~is_connected /\ reqs[r].op \in IngestOps)
            => Done(r) /\ reqs[r].resp.http = 200 /\ reqs[r].resp.status = "partial_success")

C10_Witness ==
  /\ phase = "serving" /\ ~is_connected /\ ret.call = "connect_to_mongo" /\ ~ret.value
  /\ \A r \in Reqs : Done(r) /\ reqs[r].op \in IngestOps
  /\ clock = MaxClock

\* the document of collection coll the store gave the identifier id
StoredAs(coll, id) == {store[coll][i] : i \in {j \in 1..Len(store[coll]) : store[coll][j]._id = id}}

\* C11: a typed ingestion sets its record's timestamp once, on arrival, to the
\* caller's value when the body carried one and to the time read then when it
\* did not; the record keeps that value while the request is in flight, the
\* response echoes it, and the stored document carries it
C11_TimestampOnce ==
  /\ [][\A r \in Reqs :
          (Arrives(r) /\ reqs'[r].op \in TypedOps)
            => reqs'[r].input.timestamp =
                 IF reqs'[r].body.timestamp = NoTs THEN clock ELSE reqs'[r].body.timestamp]_vars
  /\ [][\A r \in Reqs :
          (reqs[r].pc # "idle" /\ reqs[r].op \in TypedOps)
            => reqs'[r].input = reqs[r].input /\ reqs'[r].body = reqs[r].body]_vars
  /\ [](\A r \in Reqs :
          (Done(r) /\ reqs[r].op \in TypedOps)
            => /\ reqs[r].resp.data_received.timestamp = reqs[r].input.timestamp
               /\ reqs[r].resp.status = "success"
                    => /\ StoredAs(Routed(reqs[r].op), reqs[r].locals.inserted_id) # {}
                       /\ \A d \in StoredAs(Routed(reqs[r].op), reqs[r].locals.inserted_id) :
                            d.timestamp = reqs[r].resp.data_received.timestamp)

C11_Witness ==
  /\ \E r \in Reqs :
       /\ Done(r) /\ reqs[r].op = "mapping" /\ reqs[r].resp.status = "success"
       /\ reqs[r].body.timestamp = NoTs
       /\ reqs[r].resp.data_received.timestamp < clock
  /\ \E r \in Reqs :
       /\ Done(r) /\ reqs[r].op = "dht_sensor" /\ reqs[r].resp.status = "success"
       /\ reqs[r].body.timestamp # NoTs

\* the documents of the queried collection that carry the identifier id in
\* the handler's identifying field, or all of them when there is no filter
MatchingDocs(op, id, filtered) ==
  SelectSeq(store[COLLECTIONS[QueryKey(op)]],
            LAMBDA d : filtered => d[IdField(op)] = id)

\* what C12 says of the answer data to a query (op, limit, id)
QueryAnswerIs(op, limit, id, filtered, resp) ==
  LET matching == MatchingDocs(op, id, filtered)
      data == resp.data
      returned == {data[i]._id : i \in 1..Len(data)}
  IN /\ resp.http = 200
     /\ Len(data) = Min(limit, Len(matching))
     /\ resp.count = Len(data)
     /\ Cardinality(returned) = Len(data)
     /\ \A i \in 1..Len(data) :
          \E j \in 1..Len(matching) :
            /\ data[i]._id = Hex(matching[j]._id.oid)
            /\ data[i].timestamp = matching[j].timestamp
            /\ data[i][IdField(op)] = matching[j][IdField(op)]
     /\ \A i \in 1..(Len(data) - 1) : data[i].timestamp >= data[i + 1].timestamp
     /\ \A j \in 1..Len(matching) :
          Hex(matching[j]._id.oid) \notin returned
            => \A i \in 1..Len(data) : matching[j].timestamp <= data[i].timestamp

\* C12 as claimed: a query whose find returns answers with min(limit,
\* matching) documents, where a filter parameter that was given (not None)
\* selects the documents equal to it in the identifying field; all returned
\* match, newest first, none omitted is newer, count is their number
C12_QueryFilterGiven ==
  [][\A r \in Reqs :
       (reqs[r].pc = "to_list" /\ reqs'[r].pc = "done" /\ "e" \notin DOMAIN reqs'[r].locals)
         => QueryAnswerIs(reqs[r].op, reqs[r].input.limit, reqs[r].input.id,
                          reqs[r].input.id # None, reqs'[r].resp)]_vars

\* C12, amended: the same, where the filter selects only when the parameter
\* is a non-empty string; None and the empty string both mean no filter
C12_QueryResult ==
  [][\A r \in Reqs :
       (reqs[r].pc = "to_list" /\ reqs'[r].pc = "done" /\ "e" \notin DOMAIN reqs'[r].locals)
         => QueryAnswerIs(reqs[r].op, reqs[r].input.limit, reqs[r].input.id,
                          reqs[r].input.id \notin {None, ""}, reqs'[r].resp)]_vars

\* two of three matching documents returned, a newer one stored first, and a
\* document of the other identifier left out
C12_Witness ==
  /\ Done(1) /\ reqs[1].op = "get_navigation" /\ reqs[1].input = [limit |-> 2, id |-> "a"]
  /\ reqs[1].resp.http = 200 /\ reqs[1].resp.count = 2
  /\ reqs[1].resp.data[1]._id = <<"3">>
  /\ Len(store["navigation_data"]) = 3
  /\ store["navigation_data"][2].device_id = "a"
  /\ store["navigation_data"][1].timestamp < store["navigation_data"][3].timestamp

\* the query of slot r has its find return now, with an answer, after the
\* ingestion of slot q, of the kind it queries, was answered success, and the
\* query's filter, if any, is the identifier of the ingested record
QueryAfterIngestion(r, q) ==
  /\ reqs[r].pc = "to_list" /\ reqs'[r].pc = "done" /\ "e" \notin DOMAIN reqs'[r].locals
  /\ Done(q) /\ reqs[q].op = QueryKey(reqs[r].op) /\ reqs[q].resp.status = "success"
  /\ reqs[r].input.id \in {None, "", reqs[q].input[IdField(reqs[r].op)]}

\* the ingested record of slot q is in the answer of slot r as it was
\* submitted, with database_id, a string, for its identifier
ReturnsIngested(r, q) ==
  \E i \in 1..Len(reqs'[r].resp.data) :
    reqs'[r].resp.data[i] = Merge(reqs[q].input, [_id |-> reqs[q].resp.database_id])

\* matching documents other than the one slot q stored that are as new as it
Rivals(r, q) ==
  LET matching == MatchingDocs(reqs[r].op, reqs[r].input.id, reqs[r].input.id \notin {None, ""})
  IN {j \in 1..Len(matching) :
        /\ matching[j]._id # reqs[q].locals.inserted_id
        /\ matching[j].timestamp >= reqs[q].input.timestamp}

\* C13 as claimed: a query with a matching filter that follows a successful
\* ingestion of its kind returns the ingested document, identified by the
\* database_id string and otherwise unchanged
C13_QueryReturnsIngested ==
  [][\A r, q \in Reqs : QueryAfterIngestion(r, q) => ReturnsIngested(r, q)]_vars

\* C13, amended: it does so when fewer than limit other matching documents
\* carry a timestamp at least that of the ingested one
C13_RoundTrip ==
  [][\A r, q \in Reqs :
       (QueryAfterIngestion(r, q) /\ Cardinality(Rivals(r, q)) < reqs[r].input.limit)
         => ReturnsIngested(r, q)]_vars

\* the ingested document comes back second, behind a newer one, with two
\* older matching documents left out
C13_Witness ==
  /\ Done(1) /\ reqs[1].op = "dht_sensor" /\ reqs[1].resp.status = "success"
  /\ reqs[1].resp.database_id = <<"4">>
  /\ Done(2) /\ reqs[2].op = "get_dht_sensor" /\ reqs[2].input = [limit |-> 2, id |-> "b"]
  /\ reqs[2].resp.http = 200 /\ reqs[2].resp.count = 2
  /\ reqs[2].resp.data[2]._id = reqs[1].resp.database_id
  /\ reqs[2].resp.data[1].timestamp > reqs[2].resp.data[2].timestamp

\* C14: a batch request changes the store in one step only, the return of
\* its insert: the batch collection gains exactly one document, an envelope
\* whose batch_size is the number of submitted points and whose data_points
\* is the submitted sequence in its order, and every other collection stays
\* as it was, so the batch collection's count grows by one
C14_BatchEnvelope ==
  [][\A r \in Reqs :
       (reqs'[r] # reqs[r] /\ reqs'[r].op = "batch_data")
         => IF reqs[r].pc = "insert_one" /\ reqs'[r].resp.status = "success"
              THEN LET coll == Routed("batch_data")
                       n == Len(store[coll])
                   IN /\ Len(store'[coll]) = n + 1
                      /\ SubSeq(store'[coll], 1, n) = store[coll]
                      /\ store'[coll][n + 1] =
                           [_id |-> reqs'[r].locals.inserted_id,
                            batch_timestamp |-> store'[coll][n + 1].batch_timestamp,
                            batch_size |-> Len(reqs[r].body),
                            data_points |-> reqs[r].body]
                      /\ \A c \in CollectionNames \ {coll} : store'[c] = store[c]
                      /\ reqs'[r].resp.data_points_count = Len(reqs[r].body)
              ELSE store' = store]_vars

\* a batch of two different points was stored as one envelope
C14_Witness ==
  \E r \in Reqs :
    /\ Done(r) /\ reqs[r].op = "batch_data" /\ reqs[r].resp.status = "success"
    /\ reqs[r].body = <<[range |-> 2], [range |-> 1]>>
    /\ Len(store[Routed("batch_data")]) = 1
    /\ store[Routed("batch_data")][1].batch_size = 2
    /\ store[Routed("batch_data")][1].data_points = reqs[r].body

\* C15: a health request is answered on arrival with HTTP 200, a status, a
\* timestamp and one more field, a boolean that is the store handle's
\* connected flag of the state the request is served in
C15_HealthReportsStore ==
  [][\A r \in Reqs :
       (Arrives(r) /\ reqs'[r].op = "health")
         => /\ Done(r)'
            /\ reqs'[r].resp.http = 200
            /\ {"status", "timestamp"} \subseteq DOMAIN reqs'[r].resp
            /\ \E f \in DOMAIN reqs'[r].resp \ {"http", "status", "timestamp"} :
                 reqs'[r].resp[f] = is_connected]_vars

\* C16: two requests for the same operation with the same input that both
\* failed on a store error get the same response, whatever the texts of
\* their two errors
C16_ErrorDetailWithheld ==
  \A r, q \in Reqs :
    (/\ Done(r) /\ Done(q)
     /\ reqs[r].op = reqs[q].op /\ reqs[r].input = reqs[q].input
     /\ "e" \in DOMAIN reqs[r].locals /\ "e" \in DOMAIN reqs[q].locals)
      => reqs[r].resp = reqs[q].resp

\* C17: in every step of every interleaving, (1) a step in which a request
\* moves leaves the handle's client, database and connected flag as they
\* were, and these change only in the startup step (connect) and the
\* shutdown step (close); (2) a step that changes the store is the step of
\* one ingestion request and changes only the collection routed for its
\* kind; (3) the documents a query returns are documents of the collection
\* routed for its kind
C17_RequestsIndependent ==
  /\ [][(\E r \in Reqs : reqs'[r] # reqs[r]) => UNCHANGED <<client, database, is_connected>>]_vars
  /\ [][<<client, database, is_connected>>' # <<client, database, is_connected>>
          => \/ phase = "startup" /\ phase' = "serving" /\ ret'.call = "connect_to_mongo"
             \/ phase = "serving" /\ phase' = "stopped" /\ ret'.call = "close_mongo_connection"]_vars
  /\ [][store' # store
          => \E r \in Reqs :
               /\ reqs'[r] # reqs[r] /\ reqs[r].op \in IngestOps
               /\ \A q \in Reqs \ {r} : reqs'[q] = reqs[q]
               /\ \A c \in CollectionNames \ {Routed(reqs[r].op)} : store'[c] = store[c]]_vars
  /\ [][\A r \in Reqs :
          (reqs[r].pc = "to_list" /\ reqs'[r].pc = "done" /\ "e" \notin DOMAIN reqs'[r].locals)
            => \A i \in 1..Len(reqs'[r].resp.data) :
                 \E j \in 1..Len(store[Routed(QueryKey(reqs[r].op))]) :
                   <<reqs'[r].resp.data[i]>> = ConvertIds(<<store[Routed(QueryKey(reqs[r].op))][j]>>)]_vars

\* while a navigation ingestion is suspended at its insert, a dht ingestion
\* that arrived after it has stored its document in its own collection, the
\* handle still connected
C17_Witness ==
  /\ is_connected /\ phase = "serving" /\ ~client.closed
  /\ reqs[1].pc = "insert_one" /\ reqs[1].op = "navigation"
  /\ Done(2) /\ reqs[2].op = "dht_sensor" /\ reqs[2].resp.status = "success"
  /\ Len(store[Routed("dht_sensor")]) = 1
  /\ \A c \in CollectionNames \ {Routed("dht_sensor")} : store[c] = <<>>

====
